---------------------------- MODULE Spec2Model ----------------------------
(***************************************************************************)
(* A model of stock_market/performance_calculation.py: the class           *)
(* PerformanceCalculator.  The state is the instance (self.prices,         *)
(* self.performance_calculations) together with the last call made on it   *)
(* (operation, arguments, outcome).  Every method is one action; its       *)
(* outcome is computed by an operator that follows the method's code line   *)
(* by line.  Python numbers are modelled as exact rationals [n, d]; the    *)
(* square root of line 60 is kept exact as a number a + b*sqrt(t).         *)
(* An outcome is a return value or the exception the interpreter raises.   *)
(***************************************************************************)
EXTENDS Integers, Sequences, FiniteSets

VARIABLES prices, performance_calculations, op, args, result

vars == <<prices, performance_calculations, op, args, result>>

---------------------------------------------------------------------------
(* Default arguments of the signatures.                                    *)
rsi_period == 14

bollinger_period == 20

bollinger_num_std_dev == 2

(* Bounds of the inputs the actions draw from.                             *)

MaxLen == 2

LedgerPeriods == 0..2

PriceValues == {1, 2}

FlatValues == {0, 1, 2}

PeriodValues == {-2, -1, 0, 1, 2, 3, 20}

CrossPeriods == {-2, -1, 0, 1, 2}

StdDevCounts == {0, 1, bollinger_num_std_dev}

DrawdownValues == {-1, 0, 25, 50, 100}

ReturnValues == {0, 1, 2}

InitArguments == {"none", "table"}

Amounts == {0, 100}

Percentages == {[n |-> 0, d |-> 1], [n |-> 1, d |-> 10]}

Balances == {0, 10000}

Risks == {[n |-> 0, d |-> 1], [n |-> 1, d |-> 50]}

StopLossAmounts == {-1, 0, 50}

Profits == {-1, 0, 2}

LossAmounts == {0, 1, 3}

Assets == {"A", "B"}

Holdings == {100, 300}

Ratios == {[n |-> 1, d |-> 4], [n |-> 3, d |-> 4]}

Capitals == {0, 1000}

Readings == {1, 2}

EnergyCategories == {"Electricity", "Gas", "Total Energy Consumption (kWh)"}

WaterCategories == {"Municipal", "Well"}

---------------------------------------------------------------------------
(* Python numbers: exact rationals in lowest terms, d > 0.                 *)

Abs(i) == IF i < 0 THEN -i ELSE i

RECURSIVE GCD(_, _)
GCD(a, b) == IF b = 0 THEN a ELSE GCD(b, a % b)

R(n, d) ==
    LET g == GCD(Abs(n), Abs(d))
        s == IF d < 0 THEN -1 ELSE 1
    IN  [n |-> (s * n) \div g, d |-> (s * d) \div g]

Rat(i) == [n |-> i, d |-> 1]

RAdd(x, y) == R(x.n * y.d + y.n * x.d, x.d * y.d)

RSub(x, y) == R(x.n * y.d - y.n * x.d, x.d * y.d)

RMul(x, y) == R(x.n * y.n, x.d * y.d)

RDiv(x, y) == R(x.n * y.d, x.d * y.n)

RLt(x, y) == x.n * y.d < y.n * x.d

RECURSIVE Sum(_)
Sum(s) == IF s = <<>> THEN 0 ELSE Head(s) + Sum(Tail(s))

RECURSIVE RSum(_)
RSum(s) == IF s = <<>> THEN Rat(0) ELSE RAdd(Head(s), RSum(Tail(s)))

(* Python slices s[:k] and s[k:], with negative and out-of-range bounds.   *)
Clamp(i, n) ==
    IF i < 0 THEN (IF i + n < 0 THEN 0 ELSE i + n)
    ELSE IF i > n THEN n ELSE i

SliceTo(s, k) == SubSeq(s, 1, Clamp(k, Len(s)))

SliceFrom(s, k) == SubSeq(s, Clamp(k, Len(s)) + 1, Len(s))

(* Outcomes of a call.                                                     *)
Return(v) == [kind |-> "return", value |-> v]

Raise(e) == [kind |-> "raise", exc |-> e]

(* Input domains.                                                          *)
SeqsUpTo(S, n) == UNION {[1..k -> S] : k \in 0..n}

Flat(v, n) == [i \in 1..n |-> v]

PriceSeries == SeqsUpTo(PriceValues, MaxLen)

FlatSeries == {Flat(v, bollinger_period) : v \in FlatValues}

---------------------------------------------------------------------------
(* calculate_mas, lines 12-28.                                             *)

RECURSIVE ExponentialMa(_, _, _)
ExponentialMa(window, acc, multiplier) ==
    IF window = <<>> THEN acc
    ELSE ExponentialMa(Tail(window),
             Append(acc, RAdd(RMul(RSub(Rat(Head(window)), acc[Len(acc)]),
                                   multiplier),
                              acc[Len(acc)])),
             multiplier)

(* Variant: the arguments are validated before the division.               *)
calculate_mas_validating(self_prices, prices_arg, period) ==
    IF period < 1 \/ Len(prices_arg) < period THEN Raise("ValueError")
    ELSE LET window == SliceTo(self_prices, period)
             simple_ma == RDiv(Rat(Sum(window)), Rat(period))
             multiplier == RDiv(Rat(2), Rat(period + 1))
         IN  Return(<<simple_ma,
                      ExponentialMa(window, <<RMul(simple_ma, multiplier)>>,
                                    multiplier)>>)

calculate_mas(self_prices, prices_arg, period) ==
    IF period = 0 THEN Raise("ZeroDivisionError")
    ELSE IF period + 1 = 0 THEN Raise("ZeroDivisionError")
    ELSE LET window == SliceTo(self_prices, period)
             simple_ma == RDiv(Rat(Sum(window)), Rat(period))
             multiplier == RDiv(Rat(2), Rat(period + 1))
         IN  Return(<<simple_ma,
                      ExponentialMa(window, <<RMul(simple_ma, multiplier)>>,
                                    multiplier)>>)

(* Variant: the call keeps its prices argument on the instance.            *)
Call_calculate_mas_storing ==
    \E p \in PriceSeries \cup FlatSeries, period \in PeriodValues :
        /\ op' = "calculate_mas"
        /\ args' = [prices |-> p, period |-> period]
        /\ result' = calculate_mas(prices, p, period)
        /\ prices' = p
        /\ UNCHANGED performance_calculations

Call_calculate_mas ==
    \E p \in PriceSeries \cup FlatSeries, period \in PeriodValues :
        /\ op' = "calculate_mas"
        /\ args' = [prices |-> p, period |-> period]
        /\ result' = calculate_mas(prices, p, period)
        /\ UNCHANGED <<prices, performance_calculations>>

---------------------------------------------------------------------------
(* calculate_rsi, lines 29-45.  The deltas index self.prices over          *)
(* range(1, len(prices)): an index past the held list raises IndexError.    *)

Deltas(self_prices, n) ==
    [i \in 1..(n - 1) |-> self_prices[i + 1] - self_prices[i]]

Gains(deltas) == [i \in DOMAIN deltas |-> IF deltas[i] > 0 THEN deltas[i] ELSE 0]

Losses(deltas) == [i \in DOMAIN deltas |-> IF deltas[i] < 0 THEN -deltas[i] ELSE 0]

calculate_rsi(self_prices, prices_arg, period) ==
    IF Len(prices_arg) >= 2 /\ Len(self_prices) < Len(prices_arg)
    THEN Raise("IndexError")
    ELSE LET deltas == Deltas(self_prices, Len(prices_arg))
         IN  IF Len(deltas) = 0 THEN Raise("ZeroDivisionError")
             ELSE LET average_gain == R(Sum(Gains(deltas)), Len(deltas))
                      average_losses == R(Sum(Losses(deltas)), Len(deltas))
                  IN  IF average_losses.n = 0 THEN Raise("ZeroDivisionError")
                      ELSE LET rs == RDiv(average_gain, average_losses)
                           IN  Return(RSub(Rat(100),
                                   RDiv(Rat(100), RAdd(Rat(1), rs))))

Call_calculate_rsi ==
    \E p \in PriceSeries, period \in {rsi_period, 2} :
        /\ op' = "calculate_rsi"
        /\ args' = [prices |-> p, period |-> period]
        /\ result' = calculate_rsi(prices, p, period)
        /\ UNCHANGED <<prices, performance_calculations>>

---------------------------------------------------------------------------
(* calculate_bollinger_bands, lines 47-64.  A real a + b*sqrt(t), t        *)
(* square-free, is [a, b, t]; b = 0 exactly when t = 1.                    *)

(* The largest s whose square divides n, n >= 1.                           *)
SquarePart(n) ==
    LET squares == {u \in 1..n : u <= n \div u /\ n % (u * u) = 0}
    IN  CHOOSE s \in squares : \A u \in squares : u <= s

Surd(a, b, t) ==
    IF b.n = 0 THEN [a |-> a, b |-> Rat(0), t |-> 1]
    ELSE IF t = 1 THEN [a |-> RAdd(a, b), b |-> Rat(0), t |-> 1]
    ELSE [a |-> a, b |-> b, t |-> t]

(* x ** 0.5 for a rational x >= 0, as coef * sqrt(rad).                    *)
Sqrt(x) ==
    IF x.n = 0 THEN [coef |-> Rat(0), rad |-> 1]
    ELSE LET a == SquarePart(x.n)
             b == SquarePart(x.d)
             q == x.d \div (b * b)
         IN  [coef |-> R(a, b * q), rad |-> (x.n \div (a * a)) * q]

SquaredDeviations(window, sma) ==
    [i \in DOMAIN window |->
        RMul(RSub(Rat(window[i]), sma), RSub(Rat(window[i]), sma))]

calculate_bollinger_bands(self_prices, prices_arg, period, num_std_dev) ==
    LET mas == calculate_mas(self_prices, prices_arg, period)
    IN  IF mas.kind = "raise" THEN mas
        ELSE LET sma == mas.value[1]
                 variance == RDiv(RSum(SquaredDeviations(
                                 SliceFrom(prices_arg, -period), sma)),
                                 Rat(period))
             IN  \* a negative float ** 0.5 is a complex number: line 61 fails
                 IF variance.n < 0 THEN Raise("AssertionError")
                 ELSE LET std_dev == Sqrt(variance)
                          spread == RMul(Rat(num_std_dev), std_dev.coef)
                      IN  Return(<<Surd(sma, spread, std_dev.rad),
                                   Surd(sma, RSub(Rat(0), spread), std_dev.rad),
                                   Surd(sma, Rat(0), 1)>>)

Call_calculate_bollinger_bands ==
    \E p \in PriceSeries \cup FlatSeries, period \in PeriodValues,
       k \in StdDevCounts :
        /\ op' = "calculate_bollinger_bands"
        /\ args' = [prices |-> p, period |-> period, num_std_dev |-> k]
        /\ result' = calculate_bollinger_bands(prices, p, period, k)
        /\ UNCHANGED <<prices, performance_calculations>>

---------------------------------------------------------------------------
(* moving_average_crossover, lines 99-113: both averages are taken from    *)
(* calculate_mas(self.prices, ...).                                        *)

(* Variant: the averages are taken from the prices argument.               *)
moving_average_crossover_of_argument(self_prices, prices_arg, short_period, long_period) ==
    LET short == calculate_mas(prices_arg, prices_arg, short_period)
    IN  IF short.kind = "raise" THEN short
        ELSE LET long == calculate_mas(prices_arg, prices_arg, long_period)
             IN  IF long.kind = "raise" THEN long
                 ELSE IF RLt(long.value[1], short.value[1]) THEN Return("Buy")
                 ELSE IF RLt(short.value[1], long.value[1]) THEN Return("Sell")
                 ELSE Return("Hold")

moving_average_crossover(self_prices, prices_arg, short_period, long_period) ==
    LET short == calculate_mas(self_prices, self_prices, short_period)
    IN  IF short.kind = "raise" THEN short
        ELSE LET long == calculate_mas(self_prices, self_prices, long_period)
             IN  IF long.kind = "raise" THEN long
                 ELSE IF RLt(long.value[1], short.value[1]) THEN Return("Buy")
                 ELSE IF RLt(short.value[1], long.value[1]) THEN Return("Sell")
                 ELSE Return("Hold")

Call_moving_average_crossover ==
    \E p \in PriceSeries, s \in CrossPeriods, l \in CrossPeriods :
        /\ op' = "moving_average_crossover"
        /\ args' = [prices |-> p, short_period |-> s, long_period |-> l]
        /\ result' = moving_average_crossover(prices, p, s, l)
        /\ UNCHANGED <<prices, performance_calculations>>

---------------------------------------------------------------------------
(* Lines 66-97: stop loss, take profit, position size.                     *)

calculate_stop_loss(entry_price, stop_loss_percentage) ==
    Return(RMul(RSub(Rat(1), stop_loss_percentage), Rat(entry_price)))

Call_calculate_stop_loss ==
    \E e \in Amounts, pct \in Percentages :
        /\ op' = "calculate_stop_loss"
        /\ args' = [entry_price |-> e, stop_loss_percentage |-> pct]
        /\ result' = calculate_stop_loss(e, pct)
        /\ UNCHANGED <<prices, performance_calculations>>

calculate_take_profit(entry_price, take_profit_percentage) ==
    Return(RMul(RAdd(Rat(1), take_profit_percentage), Rat(entry_price)))

Call_calculate_take_profit ==
    \E e \in Amounts, pct \in Percentages :
        /\ op' = "calculate_take_profit"
        /\ args' = [entry_price |-> e, take_profit_percentage |-> pct]
        /\ result' = calculate_take_profit(e, pct)
        /\ UNCHANGED <<prices, performance_calculations>>

calculate_position_size(account_balance, risk_per_trade, stop_loss_amount) ==
    IF stop_loss_amount = 0 THEN Raise("ZeroDivisionError")
    ELSE Return(RDiv(RMul(Rat(account_balance), risk_per_trade),
                     Rat(stop_loss_amount)))

Call_calculate_position_size ==
    \E b \in Balances, r \in Risks, sl \in StopLossAmounts :
        /\ op' = "calculate_position_size"
        /\ args' = [account_balance |-> b, risk_per_trade |-> r,
                    stop_loss_amount |-> sl]
        /\ result' = calculate_position_size(b, r, sl)
        /\ UNCHANGED <<prices, performance_calculations>>

---------------------------------------------------------------------------
(* Lines 115-136: allocation ratios and rebalancing.  A dict is a function *)
(* on its key set.                                                         *)

Dicts(K, V) == UNION {[S -> V] : S \in SUBSET K}

RECURSIVE SumValues(_)
SumValues(d) ==
    IF DOMAIN d = {} THEN 0
    ELSE LET k == CHOOSE k \in DOMAIN d : TRUE
         IN  d[k] + SumValues([j \in DOMAIN d \ {k} |-> d[j]])

calculate_allocation_ratios(total_capital, allocations) ==
    Return([asset \in DOMAIN allocations |->
               RMul(Rat(total_capital), allocations[asset])])

Call_calculate_allocation_ratios ==
    \E c \in Capitals, a \in Dicts(Assets, Ratios) :
        /\ op' = "calculate_allocation_ratios"
        /\ args' = [total_capital |-> c, allocations |-> a]
        /\ result' = calculate_allocation_ratios(c, a)
        /\ UNCHANGED <<prices, performance_calculations>>

(* Variant: only the holdings of the target assets are totalled.           *)
rebalance_portfolio_of_targets(portfolio, target_ratios) ==
    LET total_value == SumValues([a \in DOMAIN portfolio \cap DOMAIN target_ratios
                                     |-> portfolio[a]])
    IN  Return([asset \in DOMAIN target_ratios |->
                   RMul(Rat(total_value), target_ratios[asset])])

rebalance_portfolio(portfolio, target_ratios) ==
    LET total_value == SumValues(portfolio)
    IN  Return([asset \in DOMAIN target_ratios |->
                   RMul(Rat(total_value), target_ratios[asset])])

Call_rebalance_portfolio ==
    \E pf \in Dicts(Assets, Holdings), t \in Dicts(Assets, Ratios) :
        /\ op' = "rebalance_portfolio"
        /\ args' = [portfolio |-> pf, target_ratios |-> t]
        /\ result' = rebalance_portfolio(pf, t)
        /\ UNCHANGED <<prices, performance_calculations>>

---------------------------------------------------------------------------
(* calculate_max_drawdown, lines 138-154.                                  *)

(* Variant: the comparison of line 149 reversed.                           *)
NewPeak_reversed(value, peak) == IF value < peak THEN value ELSE peak

NewPeak(value, peak) == IF value > peak THEN value ELSE peak

RECURSIVE DrawdownLoop(_, _, _)
DrawdownLoop(rest, peak, max_drawdown) ==
    IF rest = <<>> THEN Return(max_drawdown)
    ELSE LET value == Head(rest)
             new_peak == NewPeak(value, peak)
         IN  IF new_peak = 0 THEN Raise("ZeroDivisionError")
             ELSE LET drawdown == R(new_peak - value, new_peak)
                  IN  DrawdownLoop(Tail(rest), new_peak,
                          IF RLt(max_drawdown, drawdown) THEN drawdown
                          ELSE max_drawdown)

(* Variant: an empty sequence is answered with 0.                          *)
calculate_max_drawdown_guarded(portfolio_values) ==
    IF portfolio_values = <<>> THEN Return(Rat(0))
    ELSE DrawdownLoop(portfolio_values, portfolio_values[1], Rat(0))

calculate_max_drawdown(portfolio_values) ==
    IF portfolio_values = <<>> THEN Raise("IndexError")
    ELSE DrawdownLoop(portfolio_values, portfolio_values[1], Rat(0))

Call_calculate_max_drawdown ==
    \E pv \in SeqsUpTo(DrawdownValues, MaxLen) :
        /\ op' = "calculate_max_drawdown"
        /\ args' = [portfolio_values |-> pv]
        /\ result' = calculate_max_drawdown(pv)
        /\ UNCHANGED <<prices, performance_calculations>>

---------------------------------------------------------------------------
(* calculate_risk_reward_ratio, lines 156-165.                             *)

(* Variant: the quotient taken the other way round.                        *)
calculate_risk_reward_ratio_inverted(potential_profit, potential_loss) ==
    IF potential_loss = 0 THEN Raise("ZeroDivisionError")
    ELSE Return(R(potential_profit, potential_loss))

calculate_risk_reward_ratio(potential_profit, potential_loss) ==
    IF potential_profit = 0 THEN Raise("ZeroDivisionError")
    ELSE Return(R(potential_loss, potential_profit))

Call_calculate_risk_reward_ratio ==
    \E pp \in Profits, pl \in LossAmounts :
        /\ op' = "calculate_risk_reward_ratio"
        /\ args' = [potential_profit |-> pp, potential_loss |-> pl]
        /\ result' = calculate_risk_reward_ratio(pp, pl)
        /\ UNCHANGED <<prices, performance_calculations>>

---------------------------------------------------------------------------
(* calculate_volatility and calculate_lookback_period, lines 167-187.      *)

SimpleReturns(p) ==
    [i \in 1..(Len(p) - 1) |-> RSub(R(p[i + 1], p[i]), Rat(1))]

calculate_volatility(prices_arg, period) ==
    IF \E i \in 1..(Len(prices_arg) - 1) : prices_arg[i] = 0
    THEN Raise("ZeroDivisionError")
    ELSE LET returns == SimpleReturns(prices_arg)
         IN  IF Len(returns) = 0 THEN Return(Rat(0))
             ELSE LET mean == RDiv(RSum(returns), Rat(Len(returns)))
                  IN  Return(RSum([i \in DOMAIN returns |->
                          RMul(RSub(returns[i], mean), RSub(returns[i], mean))]))

Call_calculate_volatility ==
    \E p \in SeqsUpTo(ReturnValues, MaxLen), period \in {2} :
        /\ op' = "calculate_volatility"
        /\ args' = [prices |-> p, period |-> period]
        /\ result' = calculate_volatility(p, period)
        /\ UNCHANGED <<prices, performance_calculations>>

calculate_lookback_period(prices_arg, period) ==
    Return(SliceFrom(prices_arg, -period))

Call_calculate_lookback_period ==
    \E p \in PriceSeries, period \in PeriodValues :
        /\ op' = "calculate_lookback_period"
        /\ args' = [prices |-> p, period |-> period]
        /\ result' = calculate_lookback_period(p, period)
        /\ UNCHANGED <<prices, performance_calculations>>

---------------------------------------------------------------------------
(* Lines 189-240: carbon footprint and the two ledger reports.  A ledger   *)
(* maps each category to its readings; a DataFrame is its period rows and  *)
(* the 'Annual Total' row, each a function on the column names.            *)

calculate_carbon_footprint(activity_data, emission_factor) ==
    Return(RMul(Rat(activity_data), emission_factor))

Call_calculate_carbon_footprint ==
    \E a \in Amounts, f \in Percentages :
        /\ op' = "calculate_carbon_footprint"
        /\ args' = [activity_data |-> a, emission_factor |-> f]
        /\ result' = calculate_carbon_footprint(a, f)
        /\ UNCHANGED <<prices, performance_calculations>>

Ledgers(categories) ==
    UNION {[S -> [1..n -> Readings]] : S \in SUBSET categories, n \in LedgerPeriods}

RaggedLedgers(categories) ==
    {[c \in categories |-> IF c = short THEN Flat(1, n) ELSE Flat(1, n + 1)] :
        short \in categories, n \in LedgerPeriods}

EqualLengths(data) ==
    \A c1 \in DOMAIN data, c2 \in DOMAIN data : Len(data[c1]) = Len(data[c2])

Periods(data) ==
    IF DOMAIN data = {} THEN 0
    ELSE Len(data[CHOOSE c \in DOMAIN data : TRUE])

ColumnSum(rows, c) == Sum([i \in DOMAIN rows |-> rows[i][c]])

TotalColumnWritten == "Total Energy Consumption (kWh"

TotalColumnRead == "Total Energy Consumption (kWh)"

calculate_energy_consumption(energy_data) ==
    IF ~EqualLengths(energy_data) THEN Raise("ValueError")
    ELSE LET columns == DOMAIN energy_data \cup {TotalColumnWritten}
             df == [i \in 1..Periods(energy_data) |->
                       [c \in columns |->
                           IF c = TotalColumnWritten
                           THEN SumValues([k \in DOMAIN energy_data |->
                                              energy_data[k][i]])
                           ELSE energy_data[c][i]]]
         IN  IF TotalColumnRead \notin columns THEN Raise("KeyError")
             ELSE LET annual_total_consumption == ColumnSum(df, TotalColumnRead)
                  IN  Return([periods |-> df,
                              annual_total |->
                                  [c \in columns |->
                                      IF c = TotalColumnRead
                                      THEN annual_total_consumption
                                      ELSE ColumnSum(df, c)]])

Call_calculate_energy_consumption ==
    \E data \in Ledgers(EnergyCategories) \cup RaggedLedgers(EnergyCategories) :
        /\ op' = "calculate_energy_consumption"
        /\ args' = [energy_data |-> data]
        /\ result' = calculate_energy_consumption(data)
        /\ UNCHANGED <<prices, performance_calculations>>

calculate_water_usage(water_usage_data) ==
    IF ~EqualLengths(water_usage_data) THEN Raise("ValueError")
    ELSE Raise("NameError")

Call_calculate_water_usage ==
    \E data \in Ledgers(WaterCategories) \cup RaggedLedgers(WaterCategories) :
        /\ op' = "calculate_water_usage"
        /\ args' = [water_usage_data |-> data]
        /\ result' = calculate_water_usage(data)
        /\ UNCHANGED <<prices, performance_calculations>>

---------------------------------------------------------------------------
(* __init__, lines 8-10: the argument is ignored.                          *)

Init ==
    \E a \in InitArguments :
        /\ prices = <<>>
        /\ performance_calculations = <<>>
        /\ op = "__init__"
        /\ args = [performance_calculations |-> a]
        /\ result = Return("None")

Next ==
    \/ Call_calculate_mas
    \/ Call_calculate_rsi
    \/ Call_calculate_bollinger_bands
    \/ Call_calculate_stop_loss
    \/ Call_calculate_take_profit
    \/ Call_calculate_position_size
    \/ Call_moving_average_crossover
    \/ Call_calculate_allocation_ratios
    \/ Call_rebalance_portfolio
    \/ Call_calculate_max_drawdown
    \/ Call_calculate_risk_reward_ratio
    \/ Call_calculate_volatility
    \/ Call_calculate_lookback_period
    \/ Call_calculate_carbon_footprint
    \/ Call_calculate_energy_consumption
    \/ Call_calculate_water_usage

Spec == Init /\ [][Next]_vars

---------------------------------------------------------------------------
(* Properties.                                                             *)

Mean(s) == R(Sum(s), Len(s))

IsReturn == result.kind = "return"

Raises(e) == result.kind = "raise" /\ result.exc = e

(* C1: for 1 <= period <= len(prices), calculate_mas(prices, period)       *)
(* returns as its first result the arithmetic mean of the first `period`   *)
(* elements of the prices it was given (v for a series of v's).            *)
C1_SimpleAverageOfGivenPrices ==
    (op = "calculate_mas" /\ 1 <= args.period /\ args.period <= Len(args.prices))
        => /\ IsReturn
           /\ result.value[1] = Mean(SubSeq(args.prices, 1, args.period))

(* C2, as claimed: calculate_mas fails exactly when period < 1 or the      *)
(* series has fewer than `period` elements.                                *)
C2_FailsOnInvalidPeriod ==
    op = "calculate_mas"
        => ((args.period < 1 \/ Len(args.prices) < args.period)
                <=> result.kind = "raise")

(* C2, amended: calculate_mas fails, with ZeroDivisionError, exactly when  *)
(* period is 0 or -1; for every other period, smaller than -1 or greater   *)
(* than the length of the series included, it returns a result.            *)
C2_FailsOnlyOnZeroDivisor ==
    op = "calculate_mas"
        => IF args.period \in {0, -1} THEN Raises("ZeroDivisionError")
           ELSE IsReturn

C2_Witness ==
    /\ op = "calculate_mas"
    /\ args.period > Len(args.prices)
    /\ IsReturn

(* The simple average of the first `period` held prices.                  *)
HeldAverage(period) == R(Sum(SliceTo(prices, period)), period)

C4_FlatSeriesHasFlatBands ==
    (/\ op = "calculate_bollinger_bands"
     /\ args.period = bollinger_period
     /\ Len(args.prices) = bollinger_period
     /\ \A i \in DOMAIN args.prices : args.prices[i] = args.prices[1])
        => /\ IsReturn
           /\ result.value[1] = result.value[2]
           /\ result.value[2] = result.value[3]

(* The running peak and the drawdown at position j, by definition.        *)
PeakAt(s, j) == CHOOSE m \in {s[i] : i \in 1..j} : \A i \in 1..j : s[i] <= m

DrawdownAt(s, j) == R(PeakAt(s, j) - s[j], PeakAt(s, j))

MaxDrawdown(s) ==
    CHOOSE d \in {DrawdownAt(s, j) : j \in DOMAIN s} :
        \A j \in DOMAIN s : ~RLt(d, DrawdownAt(s, j))

C6_FailsOnNonPositivePeak ==
    (/\ op = "calculate_max_drawdown"
     /\ \/ args.portfolio_values = <<>>
        \/ \E j \in DOMAIN args.portfolio_values :
               PeakAt(args.portfolio_values, j) <= 0)
        => result.kind = "raise"

(* C6, amended: calculate_max_drawdown fails exactly on an empty sequence  *)
(* (IndexError) and on a sequence whose running peak is zero at some       *)
(* position (ZeroDivisionError); a sequence whose running peak is negative *)
(* and never zero yields a result.                                         *)
C6_FailsOnEmptyOrZeroPeak ==
    op = "calculate_max_drawdown"
        => LET s == args.portfolio_values
           IN  IF s = <<>> THEN Raises("IndexError")
               ELSE IF \E j \in DOMAIN s : PeakAt(s, j) = 0
                    THEN Raises("ZeroDivisionError")
                    ELSE IsReturn

C6_Witness ==
    /\ op = "calculate_max_drawdown"
    /\ args.portfolio_values # <<>>
    /\ \A j \in DOMAIN args.portfolio_values : PeakAt(args.portfolio_values, j) < 0
    /\ IsReturn

(* C7: for a ledger of equal-length categories (here: at least two         *)
(* categories and one period) calculate_energy_consumption returns a table *)
(* whose period rows carry a total cell equal to the row's sum across      *)
(* categories, plus an 'Annual Total' row of the column sums whose total   *)
(* cell is the sum of the per-period totals.                               *)
C7_EnergyReportTotals ==
    (/\ op = "calculate_energy_consumption"
     /\ EqualLengths(args.energy_data)
     /\ Cardinality(DOMAIN args.energy_data) >= 2
     /\ Periods(args.energy_data) >= 1)
        => LET data == args.energy_data
           IN  /\ IsReturn
               /\ Len(result.value.periods) = Periods(data)
               /\ \A i \in DOMAIN result.value.periods :
                      result.value.periods[i][TotalColumnRead]
                          = SumValues([c \in DOMAIN data |-> data[c][i]])
               /\ \A c \in DOMAIN data :
                      result.value.annual_total[c] = Sum(data[c])
               /\ result.value.annual_total[TotalColumnRead]
                      = Sum([i \in DOMAIN result.value.periods |->
                                result.value.periods[i][TotalColumnRead]])

(* C8: rebalance_portfolio returns a map on exactly the keys of            *)
(* target_ratios, each asset at total * ratio, the total taken over all    *)
(* portfolio values; assets of the portfolio alone never appear.           *)
C8_RebalanceOverTargets ==
    op = "rebalance_portfolio"
        => LET total == SumValues([a \in Assets |->
                            IF a \in DOMAIN args.portfolio
                            THEN args.portfolio[a] ELSE 0])
           IN  /\ IsReturn
               /\ DOMAIN result.value = DOMAIN args.target_ratios
               /\ \A a \in DOMAIN args.target_ratios :
                      result.value[a] = RMul(Rat(total), args.target_ratios[a])
               /\ (/\ args.portfolio = [a \in Assets |->
                                           IF a = "A" THEN 100 ELSE 300]
                   /\ args.target_ratios = [a \in Assets |->
                                           IF a = "A" THEN R(1, 4) ELSE R(3, 4)])
                      => result.value = [a \in Assets |->
                                           IF a = "A" THEN Rat(100) ELSE Rat(300)]

C8_Witness ==
    /\ op = "rebalance_portfolio"
    /\ DOMAIN args.portfolio = Assets
    /\ DOMAIN args.target_ratios = {"A"}
    /\ IsReturn
    /\ DOMAIN result.value = {"A"}

(* C9: calculate_position_size fails with a division by zero whenever      *)
(* stop_loss_amount = 0, calculate_risk_reward_ratio whenever              *)
(* potential_profit = 0; otherwise each returns its quotient.              *)
C9_ZeroDenominatorFails ==
    /\ op = "calculate_position_size"
          => IF args.stop_loss_amount = 0 THEN Raises("ZeroDivisionError")
             ELSE /\ IsReturn
                  /\ RMul(result.value, Rat(args.stop_loss_amount))
                         = RMul(Rat(args.account_balance), args.risk_per_trade)
    /\ op = "calculate_risk_reward_ratio"
          => IF args.potential_profit = 0 THEN Raises("ZeroDivisionError")
             ELSE /\ IsReturn
                  /\ RMul(result.value, Rat(args.potential_profit))
                         = Rat(args.potential_loss)

C9_Witness ==
    /\ op = "calculate_risk_reward_ratio"
    /\ args.potential_profit = 0
    /\ args.potential_loss # 0
    /\ Raises("ZeroDivisionError")

(* C10: the held price series and performance_calculations are empty after *)
(* construction with any argument and stay empty through every operation,  *)
(* whether it returns or fails.                                            *)
C10_InstanceStaysEmpty ==
    /\ prices = <<>>
    /\ performance_calculations = <<>>

C10_Witness ==
    /\ op = "calculate_mas"
    /\ args.prices # <<>>
    /\ IsReturn
    /\ prices = <<>>
    /\ performance_calculations = <<>>

===========================================================================
